---- MODULE Spec2Model ----
(***************************************************************************)
(* A model of streamlit_app.py: the GDP loader with its synthetic          *)
(* fallback, the fixed disaster table, the two filters, the moving-average *)
(* pass, the CSV export and the two caches, driven by script runs.         *)
(*                                                                         *)
(* Data representation.                                                    *)
(*   A DataFrame is [columns, dtype, rows]: the column labels in order,    *)
(*   the dtype of each column, and the rows in index order, each a         *)
(*   function from column label to value.                                  *)
(*   datetime64 value : <<year, month, day>>                               *)
(*   float64 value    : <<n, d, k>>, the number (n + k * sqrt(3)) / d      *)
(*   int64 value      : an integer                                         *)
(*   object value     : a string                                           *)
(***************************************************************************)
EXTENDS Integers, Sequences, FiniteSets, TLC

VARIABLES
    file,              \* what is at data/gdp_data.csv
    bootDate,          \* <<year, month, day>> of the wall clock when the process starts
    clock,             \* seconds since the process started
    cache_public,      \* st.cache_data entry of load_public_data
    cache_user,        \* st.cache_data entry of load_user_data
    public_loads,      \* number of executions of load_public_data's body
    user_loads,        \* number of executions of load_user_data's body
    outcome,           \* how the last script run ended
    selected_years,    \* slider value of the last run
    smoothing,         \* checkbox value of the last run
    selected_events,   \* multiselect value of the last run
    df_public,         \* the table tab 1 got from load_public_data, as the run left it
    df_filtered,       \* tab 1 view of the last run
    download1,         \* bytes offered by the tab 1 download button
    df_user,           \* the table tab 2 got from load_user_data, as the run left it
    df_user_filtered,  \* tab 2 view of the last run
    download2          \* bytes offered by the tab 2 download button

vars == <<file, bootDate, clock, cache_public, cache_user, public_loads,
          user_loads, outcome, selected_years, smoothing, selected_events,
          df_public, df_filtered, download1, df_user, df_user_filtered,
          download2>>

(***************************************************************************)
(* Program constants                                                       *)
(***************************************************************************)
TTL == 3600
FirstYear == 1960
EndYear == 2023
FallbackStartYear == 2022
FallbackEndYear == 2023
Window == 3
MinPeriods == 1

(***************************************************************************)
(* Bounds of the model                                                     *)
(***************************************************************************)
MaxClock == 7200      \* the last moment at which the script is run
RollAt == 2400        \* the clock value at which the calendar date changes
MaxSeed == 2          \* outcomes 0 .. MaxSeed - 1 of one run of the random generator
MaxStep == 1          \* the slider is moved to min, min+1 .. min+MaxStep, or max

\* the moments at which the script is run, besides the start
TimePoints == {TTL - 1, TTL, MaxClock}

(***************************************************************************)
(* Generic helpers                                                         *)
(***************************************************************************)
Range(s) == {s[i] : i \in DOMAIN s}

\* the function f on 1..n as an explicit sequence
AsSeq(f) == SubSeq(f, 1, Len(f))

\* datetime64 comparison
DateLE(p, q) ==
    \/ p[1] < q[1]
    \/ p[1] = q[1] /\ p[2] < q[2]
    \/ p[1] = q[1] /\ p[2] = q[2] /\ p[3] <= q[3]

DateLT(p, q) == DateLE(p, q) /\ p # q

Absent == [kind |-> "absent"]

(***************************************************************************)
(* The wall clock                                                          *)
(***************************************************************************)
IsLeap(y) == (y % 4 = 0 /\ y % 100 # 0) \/ y % 400 = 0

DaysInMonth(y, m) ==
    IF m = 2 THEN (IF IsLeap(y) THEN 29 ELSE 28)
    ELSE IF m \in {4, 6, 9, 11} THEN 30 ELSE 31

NextDay(dt) ==
    IF dt[3] < DaysInMonth(dt[1], dt[2]) THEN <<dt[1], dt[2], dt[3] + 1>>
    ELSE IF dt[2] < 12 THEN <<dt[1], dt[2] + 1, 1>>
    ELSE <<dt[1] + 1, 1, 1>>

\* datetime.now().date() when the clock shows c: midnight falls RollAt
\* seconds after the start of the process
TodayAt(c) == IF c < RollAt THEN bootDate ELSE NextDay(bootDate)

Today == TodayAt(clock)

(***************************************************************************)
(* Floats.  <<n, d, k>> is (n + k * sqrt(3)) / d, the exact value the      *)
(* float64 rounds; d = 0 is NaN.  The sqrt(3) part carries sin(pi/3).      *)
(***************************************************************************)
NaN == <<0, 0, 0>>
Float(n) == <<n, 1, 0>>
IsNaN(x) == x[2] = 0
\* 1 and sqrt(3) are independent over the rationals: both parts must agree
FloatEq(x, y) ==
    /\ ~IsNaN(x) /\ ~IsNaN(y)
    /\ x[1] * y[2] = y[1] * x[2]
    /\ x[3] * y[2] = y[3] * x[2]

(***************************************************************************)
(* load_public_data                                                        *)
(***************************************************************************)
\* a cell of the raw file as read_csv delivers it
NumCell(n) == [k |-> "num", v |-> n]
NanCell == [k |-> "nan", v |-> 0]
TextCell == [k |-> "text", v |-> 0]

\* years = [str(y) for y in range(1960, 2023)]
years == [i \in 1..(EndYear - FirstYear) |-> ToString(FirstYear + i - 1)]

\* pd.to_datetime(label, format='%Y') on the labels of years
YearOfLabel == [l \in Range(years) |->
                  CHOOSE y \in FirstYear..(EndYear - 1) : ToString(y) = l]
to_datetime_Y(label) == <<YearOfLabel[label], 1, 1>>

\* pd.to_numeric(cell, errors='coerce')
to_numeric(cell) == IF cell.k = "num" THEN Float(cell.v) ELSE NaN

\* DataFrame.sort_values('date') on the rows: ascending by date, rows of
\* equal date in their former order
sort_values_date(rows) ==
    LET before(j, i) == \/ DateLT(rows[j].date, rows[i].date)
                        \/ rows[j].date = rows[i].date /\ j < i
        rank == AsSeq([i \in DOMAIN rows |->
                        1 + Cardinality({j \in DOMAIN rows : before(j, i)})])
    IN AsSeq([k \in DOMAIN rows |-> rows[CHOOSE i \in DOMAIN rows : rank[i] = k]])

\* dropna() left out
dropna_none(rows) == rows

\* gdp_values.dropna()
dropna(rows) == SelectSeq(rows, LAMBDA r : ~IsNaN(r.gdp))

\* gdp_values[gdp_values['date'] <= today]
NotAfter(rows, today) == SelectSeq(rows, LAMBDA r : DateLE(r.date, today))

\* whether the try block raises on this file (lines 49-58)
NormalizeRaises(f) ==
    \/ f.kind # "table"                                   \* read_csv raises
    \/ "Country Name" \notin f.columns                    \* KeyError
    \/ \E i \in DOMAIN years : years[i] \notin f.columns  \* KeyError
    \/ Len(SelectSeq(f.rows, LAMBDA r : r.country = "Korea, Rep.")) # 1
                                      \* columns = ['date', 'gdp'] length mismatch

\* the try block when it does not raise (lines 54-63); the year cells that
\* hold numbers are read as floats
Normalize(f, today) ==
    LET df_korea == SelectSeq(f.rows, LAMBDA r : r.country = "Korea, Rep.")
        gdp_values == AsSeq([i \in DOMAIN years |->
                          [date |-> to_datetime_Y(years[i]),
                           gdp |-> to_numeric(df_korea[1].cells[years[i]])]])
    IN [columns |-> <<"date", "gdp">>,
        dtype |-> [date |-> "datetime64", gdp |-> "float64"],
        rows |-> sort_values_date(NotAfter(dropna(gdp_values), today))]

\* pd.date_range(start="2022-01-01", end="2023-12-31", freq='MS')
FallbackDates ==
    [i \in 1..(12 * (FallbackEndYear - FallbackStartYear + 1)) |->
        <<FallbackStartYear + ((i - 1) \div 12), ((i - 1) % 12) + 1, 1>>]

\* 10 * sin(i*pi/6) for i = 0 .. 11, as <<a, b>> for a + b * sqrt(3):
\* 10 * sin(pi/6) = 5, 10 * sin(pi/3) = 5 * sqrt(3), 10 * sin(pi/2) = 10
Sin10 == << <<0, 0>>, <<5, 0>>, <<0, 5>>, <<10, 0>>, <<0, 5>>, <<5, 0>>,
            <<0, 0>>, <<-5, 0>>, <<0, -5>>, <<-10, 0>>, <<0, -5>>, <<-5, 0>> >>

\* 20 * (sin(i*pi/6)**2 + 0.1) for i = 0 .. 11
RainFactor20 == <<2, 7, 17, 22, 17, 7, 2, 7, 17, 22, 17, 7>>

\* np.random.uniform(-5, 28) + sin(i*pi/6)*10 at index i (from 0), as outcome
\* r of the generator: the draw is a whole number u in -5 .. 27
RandTemp(r, i) ==
    LET u == ((r * 7 + i * 13) % 33) - 5
        sine == Sin10[(i % 12) + 1]
    IN <<u + sine[1], 1, sine[2]>>

\* np.random.uniform(10, 350) * (sin(i*pi/6)**2 + 0.1) at index i (from 0),
\* as outcome r of the generator: u * factor with u a whole number in
\* 10 .. 349
RandRain(r, i) ==
    <<(((r * 11 + i * 17) % 340) + 10) * RainFactor20[(i % 12) + 1], 20, 0>>

\* the except block without "dates = dates[dates <= today]"
FallbackNoCutoff(today, r) ==
    [columns |-> <<"date", "value_temp", "value_rain">>,
     dtype |-> [date |-> "datetime64", value_temp |-> "float64",
                value_rain |-> "float64"],
     rows |-> AsSeq([i \in DOMAIN FallbackDates |->
                 [date |-> FallbackDates[i],
                  value_temp |-> RandTemp(r, i - 1),
                  value_rain |-> RandRain(r, i - 1)]])]

\* the except block (lines 66-79)
Fallback(today, r) ==
    LET dates == SelectSeq(FallbackDates, LAMBDA d : DateLE(d, today))
    IN [columns |-> <<"date", "value_temp", "value_rain">>,
        dtype |-> [date |-> "datetime64", value_temp |-> "float64",
                   value_rain |-> "float64"],
        rows |-> AsSeq([i \in DOMAIN dates |->
                    [date |-> dates[i],
                     value_temp |-> RandTemp(r, i - 1),
                     value_rain |-> RandRain(r, i - 1)]])]

\* load_public_data(): the pair (table, success flag)
load_public_data(f, today, r) ==
    IF NormalizeRaises(f)
    THEN [table |-> Fallback(today, r), ok |-> FALSE]
    ELSE [table |-> Normalize(f, today), ok |-> TRUE]

(***************************************************************************)
(* load_user_data.  The Korean labels of the source are written here in    *)
(* romanised form:                                                         *)
(*   events   "taepung kanun", "jeonguk pogu", "chungbuk hou"              *)
(*   regions  "gangwon", "jeonguk", "chungbuk"                             *)
(*   unit     "got"                                                        *)
(***************************************************************************)
data_event ==
    << "taepung kanun", "taepung kanun", "taepung kanun", "taepung kanun",
       "jeonguk pogu", "jeonguk pogu", "jeonguk pogu", "jeonguk pogu",
       "jeonguk pogu", "jeonguk pogu",
       "chungbuk hou", "chungbuk hou", "chungbuk hou" >>

data_year ==
    << 2023, 2023, 2023, 2023,
       2025, 2025, 2025, 2025, 2025, 2025,
       2023, 2023, 2023 >>

data_region ==
    << "gangwon", "gangwon", "gangwon", "gangwon",
       "jeonguk", "jeonguk", "jeonguk", "jeonguk", "jeonguk", "jeonguk",
       "chungbuk", "chungbuk", "chungbuk" >>

data_type ==
    << "hyueop", "deunggyosigan jojeong", "gaehak yeongi", "wongyeok sueop",
       "haksailjeong jojeong", "danchuk sueop", "deunggyosigan jojeong",
       "hyueop", "wongyeok sueop", "siseol pihae",
       "pihae hakgyo-yuchiwon", "deunggyosigan jojeong", "wongyeok sueop" >>

data_value ==
    << 5, 1, 2, 2,
       247, 156, 59, 29, 3, 451,
       24, 7, 1 >>

\* ['got'] * 13
data_unit == [i \in DOMAIN data_event |-> "got"]

\* load_user_data(): the frame of the literal columns, with the date column
\* derived from year and the column type renamed to group
load_user_data ==
    [columns |-> <<"event", "year", "region", "group", "value", "unit", "date">>,
     dtype |-> [event |-> "object", year |-> "int64", region |-> "object",
                group |-> "object", value |-> "int64", unit |-> "object",
                date |-> "datetime64"],
     rows |-> AsSeq([i \in DOMAIN data_event |->
                 [event |-> data_event[i],
                  year |-> data_year[i],
                  region |-> data_region[i],
                  group |-> data_type[i],
                  value |-> data_value[i],
                  unit |-> data_unit[i],
                  date |-> <<data_year[i], 1, 1>>]])]

(***************************************************************************)
(* to_csv                                                                  *)
(***************************************************************************)
Pad2(n) == IF n < 10 THEN "0" \o ToString(n) ELSE ToString(n)

\* the text pandas writes for one value of a column of the given dtype
\* (a float that is not a whole number is written here as the fraction it
\* is, "n/d" or "(n+k*sqrt3)/d")
CellText(dtype, v) ==
    CASE dtype = "datetime64" ->
           ToString(v[1]) \o "-" \o Pad2(v[2]) \o "-" \o Pad2(v[3])
      [] dtype = "float64" ->
           IF IsNaN(v) THEN ""
           ELSE IF v[3] = 0 /\ v[1] % v[2] = 0
                THEN ToString(v[1] \div v[2]) \o ".0"
           ELSE IF v[3] = 0 THEN ToString(v[1]) \o "/" \o ToString(v[2])
           ELSE "(" \o ToString(v[1]) \o "+" \o ToString(v[3]) \o "*sqrt3)/"
                    \o ToString(v[2])
      [] dtype = "int64" -> ToString(v)
      [] OTHER -> v

\* to_csv with index=True: every line starts with the index
to_csv_index(df) ==
    [bom |-> TRUE,
     lines |-> <<(<<"">> \o df.columns)>> \o
               AsSeq([i \in DOMAIN df.rows |->
                  <<ToString(i - 1)>> \o
                  AsSeq([j \in DOMAIN df.columns |->
                     CellText(df.dtype[df.columns[j]], df.rows[i][df.columns[j]])])])]

\* df.to_csv(index=False).encode('utf-8-sig'): the byte-order mark, the
\* header line, then one line per row; a line is the sequence of its fields
to_csv(df) ==
    [bom |-> TRUE,
     lines |-> <<df.columns>> \o
               AsSeq([i \in DOMAIN df.rows |->
                  AsSeq([j \in DOMAIN df.columns |->
                     CellText(df.dtype[df.columns[j]], df.rows[i][df.columns[j]])])])]

(***************************************************************************)
(* Tab 1: slider bounds, year-range filter, moving average                 *)
(***************************************************************************)
YearsOf(df) == {df.rows[i].date[1] : i \in DOMAIN df.rows}

SetMin(S) == CHOOSE x \in S : \A y \in S : x <= y
SetMax(S) == CHOOSE x \in S : \A y \in S : x >= y

\* slider values; nan: the bounds are min()/max() of an empty column
YearRange(a, b) == [nan |-> FALSE, lo |-> a, hi |-> b]
NanRange == [nan |-> TRUE, lo |-> 0, hi |-> 0]

\* the filter with the upper bound excluded
YearFilterExclusive(df, sel) ==
    [df EXCEPT !.rows =
        SelectSeq(df.rows, LAMBDA r : /\ ~sel.nan
                                      /\ r.date[1] >= sel.lo
                                      /\ r.date[1] < sel.hi)]

\* df_public[(year >= selected_years[0]) & (year <= selected_years[1])]
YearFilter(df, sel) ==
    [df EXCEPT !.rows =
        SelectSeq(df.rows, LAMBDA r : /\ ~sel.nan
                                      /\ r.date[1] >= sel.lo
                                      /\ r.date[1] <= sel.hi)]

\* float addition
FloatAdd(x, y) ==
    <<x[1] * y[2] + y[1] * x[2], x[2] * y[2], x[3] * y[2] + y[3] * x[2]>>

RECURSIVE SumFloats(_, _, _)
\* sum of the floats vals[from..to]
SumFloats(vals, from, to) ==
    IF from > to THEN Float(0)
    ELSE FloatAdd(SumFloats(vals, from, to - 1), vals[to])

\* the float x divided by the whole number n > 0
FloatDiv(x, n) == <<x[1], x[2] * n, x[3]>>

\* Series.rolling(window, min_periods).mean() over a column without NaN
rolling_mean(vals, window, min_periods) ==
    [i \in DOMAIN vals |->
        LET from == IF i - window + 1 < 1 THEN 1 ELSE i - window + 1
            n == i - from + 1
        IN IF n >= min_periods THEN FloatDiv(SumFloats(vals, from, i), n)
           ELSE NaN]

\* df[new] = df[col].rolling(window=3, min_periods=1).mean()
WithSmooth(df, col, new) ==
    LET vals == AsSeq([i \in DOMAIN df.rows |-> df.rows[i][col]])
        sm == AsSeq(rolling_mean(vals, Window, MinPeriods))
    IN [columns |-> Append(df.columns, new),
        dtype |-> df.dtype @@ (new :> "float64"),
        rows |-> AsSeq([i \in DOMAIN df.rows |-> df.rows[i] @@ (new :> sm[i])])]

HasColumn(df, col) == col \in Range(df.columns)

(***************************************************************************)
(* Tab 2: event filter                                                     *)
(***************************************************************************)
\* df_user['event'].unique()
Events == Range(data_event)

\* the filter with an empty selection treated as "all"
EventFilterSelectAll(df, sel) ==
    IF sel = {} THEN df
    ELSE [df EXCEPT !.rows = SelectSeq(df.rows, LAMBDA r : r.event \in sel)]

\* df_user[df_user['event'].isin(selected_events)]
EventFilter(df, sel) ==
    [df EXCEPT !.rows = SelectSeq(df.rows, LAMBDA r : r.event \in sel)]

(***************************************************************************)
(* st.cache_data: an entry holds the value and the time it was stored; a   *)
(* call returns a copy of a stored value younger than the ttl, and         *)
(* otherwise runs the function and stores what it returns                  *)
(***************************************************************************)
NoEntry == [present |-> FALSE]
Entry(v, now) == [present |-> TRUE, value |-> v, storedAt |-> now]

\* an entry still served at the age of exactly ttl
CacheFreshInclusive(entry, now) == entry.present /\ now - entry.storedAt <= TTL

\* @st.cache_data(ttl=3600)
CacheFresh(entry, now) == entry.present /\ now - entry.storedAt < TTL

\* @st.cache_data
CacheFreshNoTtl(entry) == entry.present

(***************************************************************************)
(* One run of the script                                                   *)
(***************************************************************************)
Completed == "completed"
NotRun == "not run"
KeyErrorTemp == "KeyError: 'value_temp'"
KeyErrorGdp == "KeyError: 'gdp'"
SliderError == "StreamlitAPIException"

\* the smoothing step (lines 163-165) on the filtered view
Smooth(view) ==
    WithSmooth(WithSmooth(view, "value_temp", "value_temp_smooth"),
               "value_rain", "value_rain_smooth")

\* tab 1 with the smoothed columns attached to the loaded table itself and
\* the view taken from it
Tab1InPlace(table, sel, sm) ==
    IF sm /\ ~HasColumn(table, "value_temp")
    THEN [outcome |-> KeyErrorTemp, df_public |-> table,
          df_filtered |-> YearFilter(table, sel), download1 |-> Absent]
    ELSE LET src == IF sm THEN Smooth(table) ELSE table
             shown == YearFilter(src, sel)
         IN IF ~HasColumn(shown, "gdp")
            THEN [outcome |-> KeyErrorGdp, df_public |-> src,
                  df_filtered |-> shown, download1 |-> Absent]
            ELSE [outcome |-> Completed, df_public |-> src,
                  df_filtered |-> shown, download1 |-> to_csv(shown)]

\* lines 158-200 once the slider has returned sel: what the tab leaves behind
Tab1(table, sel, sm) ==
    LET view == YearFilter(table, sel)
    IN IF sm /\ ~HasColumn(view, "value_temp")
       THEN [outcome |-> KeyErrorTemp, df_public |-> table,
             df_filtered |-> view, download1 |-> Absent]
       ELSE LET shown == IF sm THEN Smooth(view) ELSE view
            IN IF ~HasColumn(shown, "gdp")
               THEN [outcome |-> KeyErrorGdp, df_public |-> table,
                     df_filtered |-> shown, download1 |-> Absent]
               ELSE [outcome |-> Completed, df_public |-> table,
                     df_filtered |-> shown, download1 |-> to_csv(shown)]

\* lines 207-269
Tab2(table, ev) ==
    LET view == EventFilter(table, ev)
    IN [df_user |-> table, df_user_filtered |-> view, download2 |-> to_csv(view)]

\* the positions the slider is moved to
SliderPoints(ys) ==
    IF ys = {} THEN {0}
    ELSE ({SetMin(ys) + k : k \in 0..MaxStep} \cup {SetMax(ys)})
            \cap (SetMin(ys)..SetMax(ys))

\* the widget values of the runs the model makes: the tab 1 widgets moved
\* with tab 2 at its default (every event selected), or the tab 2 selection
\* changed with tab 1 at its default (whole span, no smoothing)
RunInputs(ys) ==
    { [lo |-> a, hi |-> b, sm |-> s, ev |-> Events] :
        a \in SliderPoints(ys), b \in SliderPoints(ys), s \in BOOLEAN }
    \cup
    { [lo |-> SetMin(SliderPoints(ys)), hi |-> SetMax(SliderPoints(ys)),
       sm |-> FALSE, ev |-> e] : e \in SUBSET Events }

ScriptRun ==
    \E hit \in {CacheFresh(cache_public, clock)}, r \in 0..(MaxSeed - 1) :
    \E loaded \in {IF hit THEN cache_public.value
                   ELSE load_public_data(file, Today, r)} :
    \E ys \in {YearsOf(loaded.table)} :
       /\ hit => r = 0
       /\ cache_public' = IF hit THEN cache_public ELSE Entry(loaded, clock)
       /\ public_loads' = IF hit THEN public_loads ELSE public_loads + 1
       /\ \E raises \in BOOLEAN, in \in RunInputs(ys) :
             \* the slider returns lo <= hi within [min, max]; on an empty
             \* table min and max are NaN, on a table of one year they are
             \* equal: the slider either rejects such bounds or returns them
             /\ in.lo <= in.hi
             /\ raises => Cardinality(ys) <= 1
             /\ smoothing' = in.sm
             /\ IF raises
                THEN /\ outcome' = SliderError
                     /\ selected_years' = NanRange
                     /\ df_public' = loaded.table
                     /\ df_filtered' = Absent
                     /\ download1' = Absent
                ELSE \E sel \in {IF ys = {} THEN NanRange
                                 ELSE YearRange(in.lo, in.hi)} :
                     \E t1 \in {Tab1(loaded.table, sel, in.sm)} :
                        /\ outcome' = t1.outcome
                        /\ selected_years' = sel
                        /\ df_public' = t1.df_public
                        /\ df_filtered' = t1.df_filtered
                        /\ download1' = t1.download1
             /\ IF outcome' = Completed
                THEN \E uhit \in {CacheFreshNoTtl(cache_user)} :
                     \E utable \in {IF uhit THEN cache_user.value
                                    ELSE load_user_data} :
                     \E t2 \in {Tab2(utable, in.ev)} :
                        /\ cache_user' = IF uhit THEN cache_user
                                         ELSE Entry(utable, clock)
                        /\ user_loads' = IF uhit THEN user_loads
                                         ELSE user_loads + 1
                        /\ selected_events' = in.ev
                        /\ df_user' = t2.df_user
                        /\ df_user_filtered' = t2.df_user_filtered
                        /\ download2' = t2.download2
                ELSE /\ selected_events' = {}
                     /\ df_user' = Absent
                     /\ df_user_filtered' = Absent
                     /\ download2' = Absent
                     /\ UNCHANGED <<cache_user, user_loads>>
       /\ UNCHANGED <<file, bootDate, clock>>

\* time passes between two runs
Tick ==
    /\ \E t \in TimePoints :
          /\ t > clock
          /\ clock' = t
    /\ UNCHANGED <<file, bootDate, cache_public, cache_user, public_loads,
                   user_loads, outcome, selected_years, smoothing,
                   selected_events, df_public, df_filtered, download1,
                   df_user, df_user_filtered, download2>>

(***************************************************************************)
(* The files the model puts at data/gdp_data.csv                           *)
(***************************************************************************)
\* the value of a year cell that holds a number
GdpOf(y) == 5 * (y - FirstYear - 1)

AllColumns == {"Country Name"} \cup Range(years)

\* a row whose cells for the years in text hold text, for the years in
\* empty hold nothing, and otherwise hold a number
Row(country, text, empty) ==
    [country |-> country,
     cells |-> [l \in Range(years) |->
                  IF YearOfLabel[l] \in text THEN TextCell
                  ELSE IF YearOfLabel[l] \in empty THEN NanCell
                  ELSE NumCell(GdpOf(YearOfLabel[l]))]]

TableFile(cols, rows) == [kind |-> "table", columns |-> cols, rows |-> rows]

\* files on which the try block raises: no file, bytes that are not euc-kr,
\* no 'Country Name' column, a year column missing, no row of the country,
\* two rows of the country
BadFiles ==
    { [kind |-> "missing"],
      [kind |-> "undecodable"],
      TableFile(AllColumns \ {"Country Name"}, <<Row("Korea, Rep.", {}, {})>>),
      TableFile(AllColumns \ {years[Len(years)]}, <<Row("Korea, Rep.", {}, {})>>),
      TableFile(AllColumns, <<Row("Japan", {}, {})>>),
      TableFile(AllColumns, <<Row("Korea, Rep.", {}, {}), Row("Korea, Rep.", {}, {})>>) }

\* files the try block normalizes: every cell a number; the 1961 cell text;
\* the 1960 cell text and the 2022 cell empty
GoodFiles ==
    { TableFile(AllColumns, <<Row("Japan", {}, {}), Row("Korea, Rep.", {}, {})>>),
      TableFile(AllColumns, <<Row("Korea, Rep.", {FirstYear + 1}, {}), Row("Japan", {}, {})>>),
      TableFile(AllColumns, <<Row("Korea, Rep.", {FirstYear}, {EndYear - 1})>>) }

Files == BadFiles \cup GoodFiles

BootDates == { <<1961, 12, 31>>, <<2022, 1, 31>>, <<2026, 10, 29>> }

Init ==
    /\ file \in Files
    /\ bootDate \in BootDates
    /\ clock = 0
    /\ cache_public = NoEntry
    /\ cache_user = NoEntry
    /\ public_loads = 0
    /\ user_loads = 0
    /\ outcome = NotRun
    /\ selected_years = NanRange
    /\ smoothing = FALSE
    /\ selected_events = {}
    /\ df_public = Absent
    /\ df_filtered = Absent
    /\ download1 = Absent
    /\ df_user = Absent
    /\ df_user_filtered = Absent
    /\ download2 = Absent

Next == ScriptRun \/ Tick

Spec == Init /\ [][Next]_vars

(***************************************************************************)
(* Vocabulary of the properties                                            *)
(***************************************************************************)
\* v holds, in order, exactly the rows of s whose index is in keep, compared
\* on the columns cols
IsSelection(v, s, cols, keep) ==
    /\ Len(v) = Cardinality(keep)
    /\ \A k \in DOMAIN v :
          LET i == CHOOSE i \in keep : Cardinality({j \in keep : j <= i}) = k
          IN \A c \in cols : v[k][c] = s[i][c]

\* the table load_public_data returned last
LoadedTable == cache_public.value.table

\* number of month starts from January of FallbackStartYear to December of
\* FallbackEndYear that are not after the date today
MonthStartsUpTo(today) ==
    LET n == (today[1] - FallbackStartYear) * 12 + today[2]
        all == 12 * (FallbackEndYear - FallbackStartYear + 1)
    IN IF n < 0 THEN 0 ELSE IF n > all THEN all ELSE n

\* C1: every script run completes, from the load through both download
\* buttons, whatever the loader returned and whatever the widgets hold.
C1_EveryRunCompletes == outcome \in {NotRun, Completed}

\* C2: for a year range [lo, hi] within the span of the data, the filtered
\* view of tab 1 holds exactly the rows of the loaded table whose year is in
\* [lo, hi], both bounds included, in the order of the loaded table, which
\* is ascending by date.
C2_YearRangeView ==
    (df_filtered # Absent /\ ~selected_years.nan) =>
        /\ IsSelection(df_filtered.rows, LoadedTable.rows,
                       Range(LoadedTable.columns),
                       {i \in DOMAIN LoadedTable.rows :
                           /\ LoadedTable.rows[i].date[1] >= selected_years.lo
                           /\ LoadedTable.rows[i].date[1] <= selected_years.hi})
        /\ \A k \in 1..(Len(df_filtered.rows) - 1) :
              DateLT(df_filtered.rows[k].date, df_filtered.rows[k + 1].date)

\* a completed run whose range keeps both of its end years and leaves out
\* rows of the loaded table
C2_Witness ==
    /\ outcome = Completed
    /\ ~selected_years.nan
    /\ selected_years.lo < selected_years.hi
    /\ Len(df_filtered.rows) > 1
    /\ Len(df_filtered.rows) < Len(LoadedTable.rows)
    /\ df_filtered.rows[1].date[1] = selected_years.lo
    /\ df_filtered.rows[Len(df_filtered.rows)].date[1] = selected_years.hi

\* C3: the filtered view of tab 2 holds exactly the rows of the 13-row
\* table whose event is selected: none when nothing is selected, and the 4
\* rows of "taepung kanun" when that event alone is selected.
C3_EventView ==
    df_user_filtered # Absent =>
        /\ Len(cache_user.value.rows) = 13
        /\ IsSelection(df_user_filtered.rows, cache_user.value.rows,
                       Range(cache_user.value.columns),
                       {i \in DOMAIN cache_user.value.rows :
                           cache_user.value.rows[i].event \in selected_events})
        /\ selected_events = {} => Len(df_user_filtered.rows) = 0
        /\ selected_events = {"taepung kanun"} => Len(df_user_filtered.rows) = 4

C3_Witness ==
    /\ outcome = Completed
    /\ selected_events = {"taepung kanun"}
    /\ Len(df_user_filtered.rows) = 4
    /\ \A k \in 1..4 : df_user_filtered.rows[k].event = "taepung kanun"

\* C4: when the file cannot be read or normalized (missing, undecodable, a
\* column missing, no row of the country), load_public_data returns
\* success = false with a fallback table of as many rows as there are month
\* starts from 2022-01-01 to 2023-12-31 not after the date of the call; it
\* returns success = true only when the normalization went through.
C4_FallbackOnFailure ==
    cache_public.present =>
        /\ file \in BadFiles =>
              /\ ~cache_public.value.ok
              /\ Len(LoadedTable.rows) =
                    MonthStartsUpTo(TodayAt(cache_public.storedAt))
              /\ \A i \in DOMAIN LoadedTable.rows :
                    /\ LoadedTable.rows[i].date[3] = 1
                    /\ DateLE(LoadedTable.rows[i].date,
                              TodayAt(cache_public.storedAt))
        /\ cache_public.value.ok => file \in GoodFiles

\* a failed load on a date inside the fallback window: the fallback is cut
C4_Witness ==
    /\ cache_public.present
    /\ file.kind = "missing"
    /\ ~cache_public.value.ok
    /\ Len(LoadedTable.rows) = 2

\* C5: no interaction changes a cached table: while the entry of
\* load_public_data is not reloaded it stays as it is, the entry of
\* load_user_data stays as it is for ever, and the tables a run got from the
\* two loaders are, at the end of the run, the cached ones; the filters and
\* the smoothed columns touch the views only.
C5_CachedTablesUntouched ==
    [][ /\ (cache_public.present /\ public_loads' = public_loads) =>
              cache_public' = cache_public
        /\ cache_user.present => cache_user' = cache_user
        /\ df_public' # Absent => df_public' = cache_public'.value.table
        /\ df_user' # Absent => df_user' = cache_user'.value ]_vars

\* a run that attached the smoothed columns to a view with rows
C5_Witness ==
    /\ smoothing
    /\ df_filtered # Absent
    /\ Len(df_filtered.rows) > 0
    /\ HasColumn(df_filtered, "value_temp_smooth")
    /\ ~HasColumn(df_public, "value_temp_smooth")
    /\ df_public = LoadedTable
    /\ FloatEq(df_filtered.rows[1].value_rain_smooth, df_filtered.rows[1].value_rain)
    /\ FloatEq(df_filtered.rows[1].value_temp_smooth, df_filtered.rows[1].value_temp)

\* C6: the body of load_public_data runs in a script run exactly when no
\* entry younger than 3600 s exists, so the first run at or after expiry
\* runs it again, for real data and for the fallback alike; the body of
\* load_user_data runs at most once and its entry never expires.
C6_CacheTtl ==
    [][ /\ clock' # clock =>
              (public_loads' = public_loads /\ user_loads' = user_loads)
        /\ clock' = clock =>
              /\ public_loads' \in {public_loads, public_loads + 1}
              /\ public_loads' = public_loads + 1 <=>
                    ~(cache_public.present /\ clock - cache_public.storedAt < 3600)
              /\ public_loads' = public_loads + 1 =>
                    (cache_public'.present /\ cache_public'.storedAt = clock)
        /\ user_loads' <= 1
        /\ cache_user.present =>
              (user_loads' = user_loads /\ cache_user' = cache_user) ]_vars

\* the entry was reloaded at the age of exactly 3600 s, and the disaster
\* table was built once
C6_Witness ==
    /\ public_loads = 2
    /\ cache_public.storedAt = 3600
    /\ user_loads = 1
    /\ cache_user.storedAt = 0

\* C7: with smoothing on, the filtered GDP view gains one more column, the
\* trailing mean over 3 rows of its gdp column: value i is the mean of the
\* last min(i, 3) values up to row i.
C7_SmoothingAddsMean ==
    (smoothing /\ df_filtered # Absent /\ HasColumn(df_filtered, "gdp")) =>
        \E c \in Range(df_filtered.columns) \ {"date", "gdp"} :
           \A i \in DOMAIN df_filtered.rows :
              LET from == IF i > 3 THEN i - 2 ELSE 1
              IN FloatEq(df_filtered.rows[i][c],
                         FloatDiv(SumFloats([k \in DOMAIN df_filtered.rows |->
                                               df_filtered.rows[k].gdp], from, i),
                                  i - from + 1))

\* C8: in every run the tab 1 download has the header date, gdp and the
\* tab 2 download has the header event, year, region, group, value, unit,
\* date.
C8_DownloadHeaders ==
    outcome # NotRun =>
        /\ download1 # Absent
        /\ download1.lines[1] = <<"date", "gdp">>
        /\ download2 # Absent
        /\ download2.lines[1] =
              <<"event", "year", "region", "group", "value", "unit", "date">>

\* the bytes dl are the export of the view: the byte-order mark, the header
\* of the view's columns, then one line per row of the view, in order
IsExportOf(dl, view) ==
    /\ dl.bom
    /\ Len(dl.lines) = Len(view.rows) + 1
    /\ dl.lines[1] = view.columns
    /\ \A i \in DOMAIN view.rows :
          /\ Len(dl.lines[i + 1]) = Len(view.columns)
          /\ \A j \in DOMAIN view.columns :
                dl.lines[i + 1][j] =
                   CellText(view.dtype[view.columns[j]],
                            view.rows[i][view.columns[j]])

\* C9: the bytes a run offers for download are the export of the view the
\* same run shows; a view without rows gives the header line alone.
C9_DownloadIsView ==
    /\ download1 # Absent =>
          /\ df_filtered # Absent
          /\ IsExportOf(download1, df_filtered)
          /\ Len(df_filtered.rows) = 0 => download1.lines = <<df_filtered.columns>>
    /\ download2 # Absent =>
          /\ df_user_filtered # Absent
          /\ IsExportOf(download2, df_user_filtered)
          /\ Len(df_user_filtered.rows) = 0 =>
                download2.lines = <<df_user_filtered.columns>>

\* a completed run whose year range selects no row, and whose tab 1 export
\* is the header alone, beside a tab 2 export with rows
C9_Witness ==
    /\ outcome = Completed
    /\ ~selected_years.nan
    /\ Len(df_filtered.rows) = 0
    /\ download1.lines = << <<"date", "gdp">> >>
    /\ Len(download2.lines) = 14

\* the row of the country in the file
KoreaRow == file.rows[CHOOSE i \in DOMAIN file.rows :
                         file.rows[i].country = "Korea, Rep."]

\* C10: a table returned with success = true holds year cells of the
\* "Korea, Rep." row only, one row for every cell that is a number and not
\* after the date of the call, with strictly increasing dates and no missing
\* gdp; a cell that is no number costs its row and nothing else.
C10_NormalizedTable ==
    cache_public.present =>
        /\ file \in GoodFiles => cache_public.value.ok
        /\ cache_public.value.ok =>
              LET today == TodayAt(cache_public.storedAt)
                  kept == {y \in FirstYear..(EndYear - 1) :
                              /\ KoreaRow.cells[ToString(y)].k = "num"
                              /\ DateLE(<<y, 1, 1>>, today)}
              IN /\ LoadedTable.columns = <<"date", "gdp">>
                 /\ Len(LoadedTable.rows) = Cardinality(kept)
                 /\ \A i \in DOMAIN LoadedTable.rows :
                       LET row == LoadedTable.rows[i]
                       IN /\ row.date[1] \in kept
                          /\ row.date[2] = 1 /\ row.date[3] = 1
                          /\ ~IsNaN(row.gdp)
                          /\ row.gdp = <<KoreaRow.cells[ToString(row.date[1])].v, 1, 0>>
                          /\ DateLE(row.date, today)
                          /\ i > 1 => DateLT(LoadedTable.rows[i - 1].date, row.date)

\* a successful load, the day after the start, of a file whose 1961 cell
\* is text: 1960 and 1962 are there, 1961 and the years to come are not
C10_Witness ==
    /\ cache_public.present
    /\ cache_public.value.ok
    /\ KoreaRow.cells["1961"].k = "text"
    /\ cache_public.storedAt >= RollAt
    /\ Len(LoadedTable.rows) = 2
    /\ LoadedTable.rows[1].date = <<1960, 1, 1>>
    /\ LoadedTable.rows[2].date = <<1962, 1, 1>>

====
